---- MODULE Spec2Model ----
(***************************************************************************)
(* Dolev-Strong broadcast simulator of market_sim: the party state machine *)
(* (consensus.Node), the plain scheduler (consensus.DolevStrongConsensus)  *)
(* and the adversarial scheduler (agents.ConsensusAgent.run_consensus).    *)
(*                                                                         *)
(* A message is the Python string "payload|s1|s2|...".  It is modelled by  *)
(* what msg.split('|') yields: the payload parts[0] and the raw signer     *)
(* tokens parts[1:].  A token is the sequence of its decimal digits, so    *)
(* that "0" and "00" are different strings with the same int() value and   *)
(* "" is a token int() rejects.  Payloads hold no '|'.                     *)
(***************************************************************************)
EXTENDS Integers, Sequences, FiniteSets, TLC

VARIABLES
    harness,              \* "ds" | "ca" | "unit": which driver runs the nodes
    total_nodes,          \* number of parties
    f,                    \* fault bound of every Node
    byzantine_nodes,      \* set of ids built with is_byzantine = True
    sender_id,            \* DolevStrongConsensus.sender_id (the agents use 0)
    initial_value,        \* initial_value / proposed_value
    extracted,            \* [party -> set of payloads]: Node.extracted
    pc,                   \* position of the driver
    round_num,            \* loop variable of the relay rounds
    cursor,               \* position of the per-party loop in progress
    message_queues,       \* DolevStrongConsensus: list of inbound lists
    current_messages,     \* ConsensusAgent: dict id -> inbound list
    next_round_messages,  \* inbound lists under construction
    decisions,            \* party -> decide(), once collected
    final_decision,       \* ConsensusAgent.final_decision of the running agent
    emitted,              \* [party -> all messages its receive() calls returned]
    unit_node,            \* node_id of the Node driven directly
    round_msgs,           \* the bag last handed to that Node's receive()
    new_msgs,             \* what that call returned
    raised,               \* TRUE when that call ended in ValueError
    runs,                 \* number of run_consensus calls begun so far
    receive_calls         \* [party -> receive() calls on its present inbound list]

vars == <<harness, total_nodes, f, byzantine_nodes, sender_id, initial_value,
          extracted, pc, round_num, cursor, message_queues, current_messages,
          next_round_messages, decisions, final_decision, emitted,
          unit_node, round_msgs, new_msgs, raised, runs, receive_calls>>

----------------------------------------------------------------------------
(* Bounds of the model *)

MaxN == 3       \* total_nodes ranges over 2..MaxN
MaxF == 1       \* f ranges over 0..MaxF
MaxRuns == 2     \* run_consensus is called at most MaxRuns times on a harness
MaxRerunF == 0   \* the agents are run again for f in 0..MaxRerunF
MaxBag == 2     \* a bag handed directly to Node.receive holds 1..MaxBag messages

Values == {"buy", "sell"}          \* initial_value / proposed_value
NoValue == "None"                  \* Python None

Parties == 0 .. (total_nodes - 1)
Range(s) == {s[k] : k \in 1..Len(s)}

----------------------------------------------------------------------------
(* Strings of digits: str() and int() *)

RECURSIVE str(_)
str(n) == IF n < 10 THEN <<n>> ELSE str(n \div 10) \o <<n % 10>>

IsNumeral(tok) == Len(tok) > 0     \* int(tok) raises ValueError on ''

RECURSIVE int(_)
int(tok) == IF Len(tok) = 1 THEN tok[1]
            ELSE 10 * int(SubSeq(tok, 1, Len(tok) - 1)) + tok[Len(tok)]

Msg(payload, tokens) == [payload |-> payload, signers |-> tokens]

\* faulty variant of sign: a node built with is_byzantine signs a value of
\* its own, as ConsensusAgent.propose does
sign_mut(node_id, message) ==
    IF node_id \in byzantine_nodes
    THEN Msg("attack", <<str(node_id)>>)
    ELSE Msg(message, <<str(node_id)>>)
\* Node.sign on a bare value: f"{message}|{self.node_id}"
sign(node_id, message) == Msg(message, <<str(node_id)>>)

----------------------------------------------------------------------------
(* consensus.Node *)

\* faulty variant of verify: "len(signers) <= self.f + 1"
verify_len_mut(nf, msg) ==
    /\ Len(msg.signers) >= 1
    /\ Cardinality(Range(msg.signers)) = Len(msg.signers)
    /\ Len(msg.signers) <= nf + 1
\* faulty variant of verify: the duplicate-signer test left out
verify_mut(nf, msg) ==
    /\ Len(msg.signers) >= 1
    /\ Len(msg.signers) <= nf + 2
\* Node.verify: at least one signer part, the parts pairwise different as
\* strings, at most f + 2 of them
verify(nf, msg) ==
    /\ Len(msg.signers) >= 1
    /\ Cardinality(Range(msg.signers)) = Len(msg.signers)
    /\ Len(msg.signers) <= nf + 2

\* faulty variant of is_new: the membership test left out
is_new_mut(payload, ext) == TRUE
\* "payload not in self.extracted"
is_new(payload, ext) == payload \notin ext

\* faulty variant of add: the set replaced instead of extended
add_mut(ext, payload) == {payload}
\* "self.extracted.add(payload)"
add(ext, payload) == ext \cup {payload}

\* faulty variant of relay: the chain passed on without the node's own id
relay_mut(node_id, payload, signers) ==
    Msg(payload, [k \in 1..Len(signers) |-> str(signers[k])])
\* the message appended to new_msgs: the int signers re-serialised, own id last
relay(node_id, payload, signers) ==
    Msg(payload, [k \in 1..(Len(signers) + 1) |->
                    IF k <= Len(signers) THEN str(signers[k]) ELSE str(node_id)])

\* one iteration of the loop of Node.receive on the state
\* st = [extracted, new_msgs, raised]
receive_step(node_id, nf, st, msg) ==
    IF st.raised THEN st
    ELSE IF Len(msg.signers) = 0 THEN st
    ELSE IF \E k \in 1..Len(msg.signers) : ~IsNumeral(msg.signers[k])
         THEN [st EXCEPT !.raised = TRUE]
    ELSE LET signers == [k \in 1..Len(msg.signers) |-> int(msg.signers[k])]
         IN  IF ~verify(nf, msg) THEN st
             ELSE IF signers[1] # 0 THEN st
             ELSE IF ~is_new(msg.payload, st.extracted) THEN st
             ELSE [extracted |-> add(st.extracted, msg.payload),
                   new_msgs  |-> IF node_id \notin Range(signers)
                                 THEN Append(st.new_msgs,
                                             relay(node_id, msg.payload, signers))
                                 ELSE st.new_msgs,
                   raised    |-> FALSE]

RECURSIVE receive_loop(_, _, _, _, _)
receive_loop(node_id, nf, st, msgs, k) ==
    IF k > Len(msgs) THEN st
    ELSE receive_loop(node_id, nf, receive_step(node_id, nf, st, msgs[k]), msgs, k + 1)

\* Node.receive(round_msgs): the node's new extracted set, the list returned,
\* and whether the call raised instead of returning (nothing is returned then)
receive(node_id, nf, ext, msgs) ==
    LET st == receive_loop(node_id, nf,
                           [extracted |-> ext, new_msgs |-> <<>>, raised |-> FALSE],
                           msgs, 1)
    IN  IF st.raised THEN [st EXCEPT !.new_msgs = <<>>] ELSE st

\* faulty variant of decide: "len(self.extracted) >= 1"
decide_mut(ext) == IF Cardinality(ext) >= 1 THEN CHOOSE v \in ext : TRUE ELSE "0"
\* Node.decide
decide(ext) == IF Cardinality(ext) = 1 THEN CHOOSE v \in ext : TRUE ELSE "0"

----------------------------------------------------------------------------
(* Shared pieces of the two schedulers *)

NoMessages == [p \in Parties |-> <<>>]
NoKeys == <<>>                      \* the empty dict
\* faulty variant of NoneExtracted: the sets left as they are
NoneExtracted_mut == extracted
\* "node.extracted.clear()" / "agent.node.extracted = set()" for every party
NoneExtracted == [p \in Parties |-> {}]
\* no receive() call made yet on any party's inbound list
NoCalls == [p \in Parties |-> 0]

\* state that only the direct driver of one Node uses
UnitIdle ==
    /\ unit_node = 0
    /\ round_msgs = <<>>
    /\ new_msgs = <<>>
    /\ raised = FALSE

\* faulty variant of last_round: one relay round too many
last_round_mut(nf) == nf + 2
\* the last round_num of "for round_num in range(1, f + 2)"
last_round(nf) == nf + 1

Configs ==
    {c \in [total_nodes : 2..MaxN, f : 0..MaxF] : c.total_nodes >= c.f + 2}

----------------------------------------------------------------------------
(* consensus.DolevStrongConsensus *)

\* __init__: the nodes are built with empty extracted sets
InitDS ==
    /\ harness = "ds"
    /\ \E c \in Configs :
          /\ total_nodes = c.total_nodes
          /\ f = c.f
          /\ byzantine_nodes \in {b \in SUBSET (0..(c.total_nodes - 1)) :
                                     Cardinality(b) <= c.f}
          /\ sender_id \in 0..(c.total_nodes - 1)
          /\ extracted = [p \in 0..(c.total_nodes - 1) |-> {}]
          /\ emitted = [p \in 0..(c.total_nodes - 1) |-> <<>>]
          /\ message_queues = [p \in 0..(c.total_nodes - 1) |-> <<>>]
          /\ next_round_messages = [p \in 0..(c.total_nodes - 1) |-> <<>>]
    /\ initial_value \in Values
    /\ pc = "start"
    /\ round_num = 0
    /\ cursor = 0
    /\ current_messages = NoKeys
    /\ decisions = <<>>
    /\ final_decision = NoValue
    /\ runs = 0
    /\ receive_calls = NoCalls
    /\ UnitIdle

\* __init__ checks nothing: any total_nodes, f, byzantine_nodes and sender_id
\* build a harness
InitDSAny ==
    /\ harness = "ds"
    /\ total_nodes \in 0..MaxN
    /\ f \in (-1)..MaxF
    /\ byzantine_nodes \in SUBSET (0..MaxN)
    /\ sender_id \in (-1)..MaxN
    /\ extracted = NoneExtracted
    /\ emitted = NoMessages
    /\ message_queues = NoMessages
    /\ next_round_messages = NoMessages
    /\ initial_value \in Values
    /\ pc = "start"
    /\ round_num = 0
    /\ cursor = 0
    /\ current_messages = NoKeys
    /\ decisions = <<>>
    /\ final_decision = NoValue
    /\ runs = 0
    /\ receive_calls = NoCalls
    /\ UnitIdle

\* a Python list of length len accepts the subscript i (negative subscripts
\* count from the end); otherwise list[i] raises IndexError
InRange(len, i) == -len <= i /\ i < len
\* the position list[i] reads
Position(len, i) == IF i < 0 THEN len + i ELSE i

\* run_consensus up to the round loop: reset, round 0, first inbound lists.
\* self.nodes[self.sender_id] and round_messages[...] raise IndexError for a
\* subscript out of range; range(1, f + 2) is empty when f < 0
DSStart ==
    /\ harness = "ds"
    /\ pc = "start"
    /\ extracted' = NoneExtracted
    /\ emitted' = NoMessages
    /\ runs' = runs + 1
    /\ LET sender == Position(total_nodes, sender_id)
           slot(i) == i - (IF i > sender_id THEN 1 ELSE 0)
           indexed == /\ InRange(total_nodes, sender_id)
                      /\ \A i \in Parties :
                            i # sender_id => InRange(total_nodes - 1, slot(i))
       IN  IF indexed
           THEN /\ message_queues' = [i \in Parties |->
                                        IF i # sender_id
                                        THEN <<sign(sender, initial_value)>>
                                        ELSE <<>>]
                /\ round_num' = IF last_round(f) >= 1 THEN 1 ELSE round_num
                /\ pc' = IF last_round(f) >= 1 THEN "round" ELSE "decide"
           ELSE /\ pc' = "crashed"
                /\ UNCHANGED <<message_queues, round_num>>
    /\ next_round_messages' = NoMessages
    /\ receive_calls' = NoCalls
    /\ cursor' = 0
    /\ UNCHANGED <<harness, total_nodes, f, byzantine_nodes, sender_id,
                   initial_value, current_messages, decisions, final_decision,
                   unit_node, round_msgs, new_msgs, raised>>

\* one pass of "for node_id, node in enumerate(self.nodes)"; after the last
\* node "message_queues = next_round_messages" and the next round_num
DSReceive ==
    /\ harness = "ds"
    /\ pc = "round"
    /\ cursor < total_nodes
    /\ LET node_id == cursor
           polled == message_queues[node_id] # <<>>
           res == receive(node_id, f, extracted[node_id], message_queues[node_id])
           outgoing == IF polled THEN res.new_msgs ELSE <<>>
           filled == [other_id \in Parties |->
                        IF polled /\ other_id # node_id
                        THEN next_round_messages[other_id] \o outgoing
                        ELSE next_round_messages[other_id]]
           last == cursor + 1 = total_nodes
       IN  /\ extracted' = IF polled
                           THEN [extracted EXCEPT ![node_id] = res.extracted]
                           ELSE extracted
           /\ emitted' = [emitted EXCEPT ![node_id] = @ \o outgoing]
           /\ IF polled /\ res.raised
              THEN /\ pc' = "crashed"
                   /\ receive_calls' = [receive_calls EXCEPT ![node_id] = @ + 1]
                   /\ UNCHANGED <<message_queues, next_round_messages,
                                  round_num, cursor>>
              ELSE /\ message_queues' = IF last THEN filled ELSE message_queues
                   /\ receive_calls' =
                         IF last THEN NoCalls
                         ELSE IF polled
                              THEN [receive_calls EXCEPT ![node_id] = @ + 1]
                              ELSE receive_calls
                   /\ next_round_messages' = IF last THEN NoMessages ELSE filled
                   /\ cursor' = IF last THEN 0 ELSE cursor + 1
                   /\ round_num' = IF last /\ round_num < last_round(f)
                                   THEN round_num + 1 ELSE round_num
                   /\ pc' = IF last /\ round_num >= last_round(f)
                           THEN "decide" ELSE "round"
    /\ UNCHANGED <<harness, total_nodes, f, byzantine_nodes, sender_id,
                   initial_value, current_messages, decisions, final_decision,
                   unit_node, round_msgs, new_msgs, raised,
                   runs>>

\* faulty variant of DSDecide: only the sender applies the decision rule
DSDecide_mut ==
    /\ harness = "ds"
    /\ pc = "decide"
    /\ decisions' = [p \in {sender_id} |-> decide(extracted[p])]
    /\ pc' = "done"
    /\ UNCHANGED <<harness, total_nodes, f, byzantine_nodes, sender_id,
                   initial_value, extracted, round_num, cursor, message_queues,
                   current_messages, next_round_messages, final_decision,
                   emitted, unit_node, round_msgs, new_msgs, raised,
                   runs, receive_calls>>

\* the decision phase of run_consensus
DSDecide ==
    /\ harness = "ds"
    /\ pc = "decide"
    /\ decisions' = [p \in Parties |-> decide(extracted[p])]
    /\ pc' = "done"
    /\ UNCHANGED <<harness, total_nodes, f, byzantine_nodes, sender_id,
                   initial_value, extracted, round_num, cursor, message_queues,
                   current_messages, next_round_messages, final_decision,
                   emitted, unit_node, round_msgs, new_msgs, raised,
                   runs, receive_calls>>

NextDS == DSStart \/ DSReceive \/ DSDecide

SpecDS == InitDS /\ [][NextDS]_vars

\* the same scheduler built from any parameters
SpecDSAny == InitDSAny /\ [][NextDS]_vars

----------------------------------------------------------------------------
(* agents.ConsensusAgent.run_consensus, called on agent 0 as simulation does *)

fake_name == <<"fake_1", "fake_2", "fake_3", "fake_4", "fake_5",
               "fake_6", "fake_7", "fake_8", "fake_9">>
\* ["sell", "hold", "attack", f"fake_{i}"] for recipient i
fake_values(i) == {"sell", "hold", "attack", fake_name[i]}
corrupt_values == {"fake", "noise", "byzantine", "evil"}
malicious_values == {"sell", "panic", "crash", "exploit"}

\* the agents are built with empty extracted sets; node 0 is the sender
InitCA ==
    /\ harness = "ca"
    /\ \E c \in Configs :
          /\ total_nodes = c.total_nodes
          /\ f = c.f
          /\ byzantine_nodes \in {b \in SUBSET (0..(c.total_nodes - 1)) :
                                     Cardinality(b) <= c.f}
          /\ extracted = [p \in 0..(c.total_nodes - 1) |-> {}]
          /\ emitted = [p \in 0..(c.total_nodes - 1) |-> <<>>]
    /\ sender_id = 0
    /\ initial_value \in Values
    /\ pc = "start"
    /\ round_num = 0
    /\ cursor = 0
    /\ message_queues = <<>>
    /\ current_messages = NoKeys
    /\ next_round_messages = NoKeys
    /\ decisions = <<>>
    /\ final_decision = NoValue
    /\ runs = 0
    /\ receive_calls = NoCalls
    /\ UnitIdle

\* "if other_agent.id not in next_round_messages: ... = []" then extend, for
\* every agent but the emitting one
Distribute(next, agent, msgs) ==
    [other \in (DOMAIN next) \cup (Parties \ {agent}) |->
        IF other = agent THEN next[other]
        ELSE (IF other \in DOMAIN next THEN next[other] ELSE <<>>) \o msgs]

\* faulty variant of Corrupt: '|'.join(parts[2:]), the first signer lost
Corrupt_mut(msgs, choice) ==
    [k \in 1..Len(msgs) |->
        IF choice[k] # "keep" /\ Len(msgs[k].signers) >= 1
        THEN Msg(choice[k], SubSeq(msgs[k].signers, 2, Len(msgs[k].signers)))
        ELSE msgs[k]]
\* the corrupt-relay loop: each message kept, or its payload replaced by one
\* of corrupt_values with parts[1:] joined back unchanged
Corrupt(msgs, choice) ==
    [k \in 1..Len(msgs) |->
        IF choice[k] # "keep" /\ Len(msgs[k].signers) >= 1
        THEN Msg(choice[k], msgs[k].signers)
        ELSE msgs[k]]

\* reset, round 0 (a Byzantine sender picks one value per recipient) and the
\* delivery of the round-0 messages
CAStart ==
    /\ harness = "ca"
    /\ pc = "start"
    /\ extracted' = NoneExtracted
    /\ emitted' = NoMessages
    /\ \E fake_value \in [Parties \ {0} ->
                            UNION {fake_values(i) : i \in Parties \ {0}}] :
          /\ \A i \in Parties \ {0} : fake_value[i] \in fake_values(i)
          /\ current_messages' =
                [i \in Parties \ {0} |->
                    IF 0 \in byzantine_nodes
                    THEN <<sign(0, fake_value[i])>>
                    ELSE <<sign(0, initial_value)>>]
    /\ cursor' = 0
    /\ pc' = "process0"
    /\ runs' = runs + 1
    /\ receive_calls' = NoCalls
    /\ UNCHANGED <<harness, total_nodes, f, byzantine_nodes, sender_id,
                   initial_value, round_num, message_queues,
                   next_round_messages, decisions, final_decision,
                   unit_node, round_msgs, new_msgs, raised>>

\* the agents a loop "for agent in all_agents: if agent.id in current_messages"
\* calls receive() on
Polled(skipped) ==
    {a \in Parties : a \in DOMAIN current_messages /\ a \notin skipped}

Received(agent) ==
    receive(agent, f, extracted[agent], current_messages[agent])

\* the first agent, in list order, whose receive() raises: the loop stops
\* there; total_nodes when none does
Crash(polled) ==
    IF \E a \in polled : Received(a).raised
    THEN CHOOSE a \in polled :
            /\ Received(a).raised
            /\ \A b \in polled : Received(b).raised => a <= b
    ELSE total_nodes

ExtractedAfter(polled, upto) ==
    [a \in Parties |-> IF a \in polled /\ a <= upto
                       THEN Received(a).extracted ELSE extracted[a]]

EmittedAfter(polled, upto) ==
    [a \in Parties |-> IF a \in polled /\ a <= upto
                       THEN emitted[a] \o Received(a).new_msgs ELSE emitted[a]]

CallsAfter(polled, upto) ==
    [a \in Parties |-> IF a \in polled /\ a <= upto
                       THEN receive_calls[a] + 1 ELSE receive_calls[a]]

\* "Process round 0 messages": every agent but 0 calls receive() and the
\* result is dropped; then the first round begins
CAProcess0 ==
    /\ harness = "ca"
    /\ pc = "process0"
    /\ LET polled == Polled({0})
           crash == Crash(polled)
       IN  /\ extracted' = ExtractedAfter(polled, crash)
           /\ emitted' = EmittedAfter(polled, crash)
           /\ receive_calls' = CallsAfter(polled, crash)
           /\ pc' = IF crash < total_nodes THEN "crashed" ELSE "collect"
           /\ round_num' = IF crash < total_nodes THEN round_num ELSE 1
    /\ next_round_messages' = NoKeys
    /\ UNCHANGED <<harness, total_nodes, f, byzantine_nodes, sender_id,
                   initial_value, cursor, message_queues, current_messages,
                   decisions, final_decision, unit_node, round_msgs, new_msgs,
                   raised,
                   runs>>

\* first loop of a round, from agent on: receive(), the corrupt-relay hook of
\* a Byzantine agent, the distribution to all other agents
RECURSIVE CollectLoop(_, _, _)
CollectLoop(next, agent, choice) ==
    IF agent >= total_nodes THEN next
    ELSE IF agent \notin DOMAIN current_messages
         THEN CollectLoop(next, agent + 1, choice)
    ELSE LET returned == Received(agent).new_msgs
             sent == IF agent \in byzantine_nodes /\ returned # <<>>
                     THEN Corrupt(returned, choice[agent])
                     ELSE returned
         IN  CollectLoop(Distribute(next, agent, sent), agent + 1, choice)

\* the length of the longest list a receive() of the first loop returns
Width(polled) ==
    IF polled = {} THEN 0
    ELSE LET longest == CHOOSE a \in polled : \A b \in polled :
                            Len(Received(b).new_msgs) <= Len(Received(a).new_msgs)
         IN  Len(Received(longest).new_msgs)

CACollect ==
    /\ harness = "ca"
    /\ pc = "collect"
    /\ LET polled == Polled({})
           crash == Crash(polled)
       IN  /\ extracted' = ExtractedAfter(polled, crash)
           /\ emitted' = EmittedAfter(polled, crash)
           /\ receive_calls' = CallsAfter(polled, crash)
           /\ IF crash < total_nodes
              THEN /\ pc' = "crashed"
                   /\ UNCHANGED next_round_messages
              ELSE /\ \E choice \in [Parties -> [1..Width(polled) ->
                                        {"keep"} \cup corrupt_values]] :
                         next_round_messages' =
                            CollectLoop(next_round_messages, 0, choice)
                   /\ pc' = "inject"
    /\ UNCHANGED <<harness, total_nodes, f, byzantine_nodes, sender_id,
                   initial_value, round_num, cursor, message_queues,
                   current_messages, decisions, final_decision, unit_node,
                   round_msgs, new_msgs, raised,
                   runs>>

\* second loop of a round, from agent on: a Byzantine agent whose coin flip
\* succeeds sends "value|0|id" to all other agents; drawn[agent] is the value
\* it drew, or NoValue when its coin flip failed
RECURSIVE InjectLoop(_, _, _)
InjectLoop(next, agent, drawn) ==
    IF agent >= total_nodes THEN next
    ELSE IF agent \in byzantine_nodes /\ drawn[agent] # NoValue
         THEN InjectLoop(Distribute(next, agent,
                            <<Msg(drawn[agent], <<str(0), str(agent)>>)>>),
                         agent + 1, drawn)
         ELSE InjectLoop(next, agent + 1, drawn)

\* the injection loop, then "current_messages = next_round_messages"
CAInject ==
    /\ harness = "ca"
    /\ pc = "inject"
    /\ \E drawn \in [byzantine_nodes -> {NoValue} \cup malicious_values] :
          LET filled == InjectLoop(next_round_messages, 0, drawn)
          IN  /\ next_round_messages' = filled
              /\ current_messages' = filled
    /\ receive_calls' = NoCalls
    /\ pc' = "show"
    /\ UNCHANGED <<harness, total_nodes, f, byzantine_nodes, sender_id,
                   initial_value, extracted, round_num, cursor, message_queues,
                   decisions, final_decision, emitted, unit_node, round_msgs,
                   new_msgs, raised,
                   runs>>

\* third loop of a round ("Show what each node extracted this round"):
\* receive() on the new current_messages, its result dropped; then the next
\* round_num of range(1, f + 2), or the decision phase
CAShow ==
    /\ harness = "ca"
    /\ pc = "show"
    /\ LET polled == Polled({})
           crash == Crash(polled)
           more == round_num < last_round(f)
       IN  /\ extracted' = ExtractedAfter(polled, crash)
           /\ emitted' = EmittedAfter(polled, crash)
           /\ receive_calls' = CallsAfter(polled, crash)
           /\ IF crash < total_nodes
              THEN /\ pc' = "crashed"
                   /\ UNCHANGED <<round_num, next_round_messages>>
              ELSE /\ round_num' = IF more THEN round_num + 1 ELSE round_num
                   /\ next_round_messages' = IF more THEN NoKeys
                                             ELSE next_round_messages
                   /\ pc' = IF more THEN "collect" ELSE "decide"
    /\ UNCHANGED <<harness, total_nodes, f, byzantine_nodes, sender_id,
                   initial_value, cursor, message_queues, current_messages,
                   decisions, final_decision, unit_node, round_msgs, new_msgs,
                   raised,
                   runs>>

\* "self.final_decision = self.node.decide()" of the agent run_consensus was
\* called on
CADecide ==
    /\ harness = "ca"
    /\ pc = "decide"
    /\ final_decision' = decide(extracted[0])
    /\ pc' = "results"
    /\ UNCHANGED <<harness, total_nodes, f, byzantine_nodes, sender_id,
                   initial_value, extracted, round_num, cursor, message_queues,
                   current_messages, next_round_messages, decisions, emitted,
                   unit_node, round_msgs, new_msgs, raised,
                   runs, receive_calls>>

\* simulation: "decision = agent.node.decide()" for every agent after the run
CAResults ==
    /\ harness = "ca"
    /\ pc = "results"
    /\ decisions' = [p \in Parties |-> decide(extracted[p])]
    /\ pc' = "done"
    /\ UNCHANGED <<harness, total_nodes, f, byzantine_nodes, sender_id,
                   initial_value, extracted, round_num, cursor, message_queues,
                   current_messages, next_round_messages, final_decision,
                   emitted, unit_node, round_msgs, new_msgs, raised,
                   runs, receive_calls>>

NextCA == CAStart \/ CAProcess0 \/ CACollect \/ CAInject \/ CAShow
          \/ CADecide \/ CAResults

SpecCA == InitCA /\ [][NextCA]_vars

----------------------------------------------------------------------------
(* One Node driven directly: Node(unit_node, f).receive(round_msgs) *)

\* signer parts a caller can put in a message: "", "0", "1", "00"
UnitTokens == {<<>>, <<0>>, <<1>>, <<0, 0>>}

\* "0|1|...|k-1"
DistinctChain(k) == [i \in 1..k |-> str(i - 1)]

\* every chain of at most two of the tokens, and the chains of 3..MaxF+3
\* distinct identifiers
UnitChains ==
    {<<>>} \cup {<<a>> : a \in UnitTokens}
           \cup {<<a, b>> : a \in UnitTokens, b \in UnitTokens}
           \cup {DistinctChain(k) : k \in 3..(MaxF + 3)}

UnitMsgs == {Msg(v, c) : v \in Values, c \in UnitChains}

UnitBags == UNION {[1..k -> UnitMsgs] : k \in 0..MaxBag}

\* a fresh Node: id 1 (a signer of some chains) or an id no chain holds
InitUnit ==
    /\ harness = "unit"
    /\ f \in 0..MaxF
    /\ unit_node \in {1, MaxF + 3}
    /\ total_nodes = 1
    /\ byzantine_nodes = {}
    /\ sender_id = 0
    /\ initial_value = NoValue
    /\ extracted = [p \in {unit_node} |-> {}]
    /\ emitted = [p \in {unit_node} |-> <<>>]
    /\ pc = "start"
    /\ round_num = 0
    /\ cursor = 0
    /\ message_queues = <<>>
    /\ current_messages = NoKeys
    /\ next_round_messages = NoKeys
    /\ decisions = <<>>
    /\ final_decision = NoValue
    /\ round_msgs = <<>>
    /\ new_msgs = <<>>
    /\ raised = FALSE
    /\ runs = 0
    /\ receive_calls = [p \in {unit_node} |-> 0]

\* one call of Node.receive on a bag of the caller's choice
UnitReceive ==
    /\ harness = "unit"
    /\ pc = "start"
    /\ \E bag \in UnitBags :
          LET res == receive(unit_node, f, extracted[unit_node], bag)
          IN  /\ round_msgs' = bag
              /\ extracted' = [extracted EXCEPT ![unit_node] = res.extracted]
              /\ new_msgs' = res.new_msgs
              /\ raised' = res.raised
              /\ emitted' = [emitted EXCEPT ![unit_node] = @ \o res.new_msgs]
              /\ pc' = IF res.raised THEN "raised" ELSE "returned"
    /\ receive_calls' = [receive_calls EXCEPT ![unit_node] = @ + 1]
    /\ UNCHANGED <<harness, total_nodes, f, byzantine_nodes, sender_id,
                   initial_value, round_num, cursor, message_queues,
                   current_messages, next_round_messages, decisions,
                   final_decision, unit_node,
                   runs>>

NextUnit == UnitReceive

SpecUnit == InitUnit /\ [][NextUnit]_vars

\* the same Node owned by a Byzantine agent whose id no chain holds, so
\* that every payload it extracts gives a relay
InitHook ==
    /\ harness = "unit"
    /\ f \in 0..MaxF
    /\ unit_node = MaxF + 3
    /\ total_nodes = 1
    /\ byzantine_nodes = {unit_node}
    /\ sender_id = 0
    /\ initial_value = NoValue
    /\ extracted = [p \in {unit_node} |-> {}]
    /\ emitted = [p \in {unit_node} |-> <<>>]
    /\ pc = "start"
    /\ round_num = 0
    /\ cursor = 0
    /\ message_queues = <<>>
    /\ current_messages = NoKeys
    /\ next_round_messages = NoKeys
    /\ decisions = <<>>
    /\ final_decision = NoValue
    /\ round_msgs = <<>>
    /\ new_msgs = <<>>
    /\ raised = FALSE
    /\ runs = 0
    /\ receive_calls = [p \in {unit_node} |-> 0]

\* "if agent.node.is_byzantine and new_msgs": the corrupt-relay hook on the
\* list receive() has just returned; emitted keeps that list as returned
UnitCorrupt ==
    /\ harness = "unit"
    /\ pc = "returned"
    /\ unit_node \in byzantine_nodes
    /\ new_msgs # <<>>
    /\ \E choice \in [1..Len(new_msgs) -> {"keep"} \cup corrupt_values] :
          new_msgs' = Corrupt(new_msgs, choice)
    /\ pc' = "corrupted"
    /\ UNCHANGED <<harness, total_nodes, f, byzantine_nodes, sender_id,
                   initial_value, extracted, round_num, cursor, message_queues,
                   current_messages, next_round_messages, decisions,
                   final_decision, emitted, unit_node, round_msgs, raised,
                   runs, receive_calls>>

NextHook == UnitReceive \/ UnitCorrupt

SpecHook == InitHook /\ [][NextHook]_vars

----------------------------------------------------------------------------
(* The three drivers together *)

Init == InitDS \/ InitCA \/ InitUnit

Next == NextDS \/ NextCA \/ NextUnit

Spec == Init /\ [][Next]_vars

\* the two schedulers, without the directly driven Node
InitSched == InitDS \/ InitCA

NextSched == NextDS \/ NextCA

SpecSched == InitSched /\ [][NextSched]_vars

----------------------------------------------------------------------------
(* run_consensus called again on the same parties *)

\* the caller of DolevStrongConsensus.run_consensus holds the returned dict
\* and calls again with a value of its choice; the nodes are as the run left
\* them, the locals of the finished call are gone
DSRerun ==
    /\ harness = "ds"
    /\ pc = "done"
    /\ runs < MaxRuns
    /\ initial_value' \in Values
    /\ pc' = "start"
    /\ message_queues' = NoMessages
    /\ next_round_messages' = NoMessages
    /\ receive_calls' = NoCalls
    /\ round_num' = 0
    /\ cursor' = 0
    /\ UNCHANGED <<harness, total_nodes, f, byzantine_nodes, sender_id,
                   extracted, current_messages, decisions, final_decision,
                   emitted, unit_node, round_msgs, new_msgs, raised, runs>>

\* the same for agents[0].run_consensus(agents, value): the agents keep
\* their nodes and agent 0 its final_decision; the decisions the caller
\* collected are of the finished run
CARerun ==
    /\ harness = "ca"
    /\ pc = "done"
    /\ runs < MaxRuns
    /\ initial_value' \in Values
    /\ pc' = "start"
    /\ current_messages' = NoKeys
    /\ next_round_messages' = NoKeys
    /\ receive_calls' = NoCalls
    /\ round_num' = 0
    /\ decisions' = <<>>
    /\ UNCHANGED <<harness, total_nodes, f, byzantine_nodes, sender_id,
                   extracted, cursor, message_queues, final_decision,
                   emitted, unit_node, round_msgs, new_msgs, raised, runs>>

\* DolevStrongConsensus.run_consensus(w) on nodes with empty extracted sets,
\* computed in one go (the scheduler writes every signer with str(), so no
\* receive() of a run raises): the node loop of a round from node_id on ...
RECURSIVE FreshNodes(_, _, _, _)
FreshNodes(ext, queues, next, node_id) ==
    IF node_id >= total_nodes THEN [extracted |-> ext, next |-> next]
    ELSE IF queues[node_id] = <<>>
         THEN FreshNodes(ext, queues, next, node_id + 1)
    ELSE LET res == receive(node_id, f, ext[node_id], queues[node_id])
         IN  FreshNodes([ext EXCEPT ![node_id] = res.extracted],
                        queues,
                        [other_id \in Parties |->
                            IF other_id # node_id
                            THEN next[other_id] \o res.new_msgs
                            ELSE next[other_id]],
                        node_id + 1)

\* ... the rounds from round r on ...
RECURSIVE FreshRounds(_, _, _)
FreshRounds(ext, queues, r) ==
    IF r > f + 1 THEN ext
    ELSE LET after == FreshNodes(ext, queues, [p \in Parties |-> <<>>], 0)
         IN  FreshRounds(after.extracted, after.next, r + 1)

\* ... and the extracted sets the run ends with
FreshRun(w) ==
    FreshRounds([p \in Parties |-> {}],
                [i \in Parties |-> IF i # sender_id
                                   THEN <<sign(sender_id, w)>> ELSE <<>>],
                1)

InitRerun == InitDS \/ (InitCA /\ f <= MaxRerunF)

NextRerun == NextSched \/ DSRerun \/ CARerun

SpecRerun == InitRerun /\ [][NextRerun]_vars

----------------------------------------------------------------------------
(* Properties *)

Honest == Parties \ byzantine_nodes

\* C1 -- Agreement: once a run of ConsensusAgent.run_consensus (sender 0,
\* total >= f + 2, at most f Byzantine agents) has finished, all honest
\* agents have the same decide() value.
C1_Agreement ==
    (harness = "ca" /\ pc = "done") =>
        \A p \in Honest, q \in Honest : decisions[p] = decisions[q]

\* C2 -- Validity with honest sender: once a run of
\* ConsensusAgent.run_consensus with an honest agent 0 proposing
\* initial_value has finished, every honest agent, agent 0 included,
\* decides initial_value.
C2_ValidityHonestSender ==
    (harness = "ca" /\ pc = "done" /\ 0 \notin byzantine_nodes) =>
        \A p \in Honest : decisions[p] = initial_value

\* C3 -- DolevStrongConsensus.run_consensus(initial_value) with sender 0
\* returns decisions that map every node, the sender included, to
\* initial_value, for every f >= 0 and total_nodes >= f + 2.
C3_AllDecideInitialValue ==
    (harness = "ds" /\ pc = "done" /\ sender_id = 0) =>
        \A p \in Parties : decisions[p] = initial_value

\* the identifiers of a chain whose parts are all numerals
SignerIds(msg) == [k \in 1..Len(msg.signers) |-> int(msg.signers[k])]
AllNumerals(msg) == \A k \in 1..Len(msg.signers) : IsNumeral(msg.signers[k])
\* every signer part is what str() gives for its identifier
Canonical(msg) ==
    \A k \in 1..Len(msg.signers) :
        IsNumeral(msg.signers[k]) /\ str(int(msg.signers[k])) = msg.signers[k]
\* the bare payload: no signer follows it
EmptyChain(msg) == msg.signers = <<>>
\* one of the four malformations: empty chain, duplicate signer, first
\* signer not the sender 0, more than nf + 2 signers
Malformed(nf, msg) ==
    \/ EmptyChain(msg)
    \/ /\ msg.signers # <<>>
       /\ AllNumerals(msg)
       /\ \/ Cardinality(Range(SignerIds(msg))) # Len(msg.signers)
          \/ SignerIds(msg)[1] # 0
          \/ Len(msg.signers) > nf + 2
WellFormed(nf, msg) ==
    /\ msg.signers # <<>>
    /\ AllNumerals(msg)
    /\ ~Malformed(nf, msg)

\* C4 -- Malformed-message rejection: after Node.receive on a bag of
\* messages whose signer parts are numerals, some of them malformed (empty
\* chain, duplicate signer, first signer not the sender, more than f + 2
\* signers), no error was raised, a payload that only malformed messages
\* carried is not in extracted and no returned message carries it, and the
\* payload of every well-formed message is in extracted.
C4_MalformedRejected ==
    ( /\ harness = "unit"
      /\ pc # "start"
      /\ \A k \in 1..Len(round_msgs) :
            Malformed(f, round_msgs[k]) \/ WellFormed(f, round_msgs[k]) )
    =>
    /\ ~raised
    /\ \A v \in Values :
          (\A k \in 1..Len(round_msgs) :
              round_msgs[k].payload = v => Malformed(f, round_msgs[k]))
          => /\ v \notin extracted[unit_node]
             /\ \A j \in 1..Len(new_msgs) : new_msgs[j].payload # v
    /\ \A k \in 1..Len(round_msgs) :
          WellFormed(f, round_msgs[k])
          => round_msgs[k].payload \in extracted[unit_node]

\* C5 -- The validity predicate is relative to the configured sender: in a
\* run of DolevStrongConsensus with any sender_id, every relayed chain
\* starts with sender_id and every party other than the sender has
\* extracted the sender's value when the run has finished.
C5_SenderRelative ==
    (harness = "ds" /\ pc = "done") =>
        /\ \A p \in Parties : \A k \in 1..Len(emitted[p]) :
              int(emitted[p][k].signers[1]) = sender_id
        /\ \A p \in Parties \ {sender_id} : initial_value \in extracted[p]

\* C6 -- Decision rule: each decide() of the decision phase returns the
\* single payload when |extracted| = 1 and "0" when extracted is empty or
\* holds two or more payloads, and leaves extracted unchanged.
C6_DecisionRule ==
    [][ (harness = "ca" /\ pc \in {"decide", "results"}) =>
          /\ extracted' = extracted
          /\ pc = "decide" =>
                /\ Cardinality(extracted[0]) = 1 =>
                      extracted[0] = {final_decision'}
                /\ Cardinality(extracted[0]) # 1 => final_decision' = "0"
          /\ pc = "results" =>
                \A p \in Parties :
                   /\ Cardinality(extracted[p]) = 1 =>
                         extracted[p] = {decisions'[p]}
                   /\ extracted[p] = {} => decisions'[p] = "0"
                   /\ Cardinality(extracted[p]) >= 2 => decisions'[p] = "0"
      ]_vars

\* a finished run where one agent decided its single payload and another,
\* holding several payloads, decided the default
C6_Witness ==
    /\ harness = "ca"
    /\ pc = "done"
    /\ \E p \in Parties :
          /\ Cardinality(extracted[p]) = 1
          /\ decisions[p] \in extracted[p]
          /\ decisions[p] # "0"
    /\ \E q \in Parties :
          /\ Cardinality(extracted[q]) >= 2
          /\ decisions[q] = "0"

\* C7 -- Extraction monotonicity: after the initial reset of a run, no step
\* of either scheduler removes a payload from any party's extracted set.
C7_ExtractionMonotone ==
    [][ pc # "start" =>
          \A p \in DOMAIN extracted : extracted[p] \subseteq extracted'[p] ]_vars

\* a run in its second relay round where a party that already held a
\* payload has extracted another one
C7_Witness ==
    /\ harness = "ca"
    /\ round_num >= 2
    /\ \E p \in Parties :
          /\ Cardinality(extracted[p]) >= 2
          /\ Len(emitted[p]) >= 2

C9_RelayOnce ==
    /\ [](\A p \in DOMAIN emitted : \A i, j \in 1..Len(emitted[p]) :
             i # j => emitted[p][i].payload # emitted[p][j].payload)
    /\ [][ pc # "start" =>
             \A p \in DOMAIN emitted :
                \A k \in (Len(emitted[p]) + 1)..Len(emitted'[p]) :
                   emitted'[p][k].payload \notin extracted[p] ]_vars

\* a finished run of the adversarial scheduler, where every bag was handed
\* to receive() twice, in which some party relayed two payloads
C9_Witness ==
    /\ harness = "ca"
    /\ pc = "done"
    /\ \E p \in Parties : Len(emitted[p]) >= 2

\* the parameters the configuration rules allow
ValidConfig ==
    /\ byzantine_nodes \subseteq Parties
    /\ sender_id \in Parties
    /\ f >= 0
    /\ total_nodes >= f + 2

\* C11 -- Configuration errors are rejected at harness entry: a
\* DolevStrongConsensus built with byzantine_nodes not a subset of the
\* parties, sender_id out of range, f negative or total_nodes < f + 2 never
\* gets past the start of run_consensus other than by an error: no relay
\* round begins, no receive() is called and no party extracts anything.
C11_ConfigErrorsRejected ==
    (harness = "ds" /\ ~ValidConfig) =>
        /\ pc \in {"start", "crashed"}
        /\ round_num = 0
        /\ \A p \in Parties : extracted[p] = {} /\ receive_calls[p] = 0

\* the run is in or past its decision phase
Deciding == pc \in {"decide", "results", "done"}

\* how far a run has come: the rounds begun, then the position in the round
Stride == total_nodes + 4
Progress ==
    IF pc = "start" THEN 0
    ELSE IF pc = "decide" THEN (f + 2) * Stride + 1
    ELSE IF pc = "results" THEN (f + 2) * Stride + 2
    ELSE IF pc = "done" THEN (f + 2) * Stride + 3
    ELSE round_num * Stride
         + (IF pc = "inject" THEN 2 ELSE IF pc = "show" THEN 3 ELSE 1)
         + cursor

\* the guard of one of the scheduler's actions holds (the values an action
\* draws come from sets that are never empty)
CanStep ==
    \/ /\ harness = "ds"
       /\ \/ pc \in {"start", "decide"}
          \/ pc = "round" /\ cursor < total_nodes
    \/ /\ harness = "ca"
       /\ pc \in {"start", "process0", "collect", "inject", "show",
                  "decide", "results"}

\* C12 -- Every run of either scheduler ends, after round 0 and the relay
\* rounds 1..f+1 taken one after the other: round_num never exceeds f + 1,
\* it moves by single steps, the decision phase is entered only by the step
\* that completes relay round f + 1, and the run ends: every step moves the
\* run forward, the steps of a run are at most (f + 2) * Stride + 3, and a
\* run that has not ended can take its next step.
C12_RoundCount ==
    /\ [](round_num <= f + 1)
    /\ [](Deciding => round_num = f + 1)
    /\ [](Progress <= (f + 2) * Stride + 3)
    /\ [](pc # "done" => CanStep)
    /\ [][ /\ Progress' > Progress
           /\ round_num' \in {round_num, round_num + 1}
           /\ (Deciding' /\ ~Deciding) =>
                 /\ round_num = f + 1
                 /\ harness = "ds" => pc = "round" /\ cursor = total_nodes - 1
                 /\ harness = "ca" => pc = "show" ]_vars

\* a finished run with f >= 1: the relay rounds 1 and 2 were both taken
C12_Witness ==
    /\ pc = "done"
    /\ f >= 1
    /\ round_num = f + 1
    /\ runs = 1

\* C13 -- After relay round f + 1 every party applies the decision rule: a
\* finished run (the dict DolevStrongConsensus.run_consensus returns, the
\* decisions the simulation collects from the agents) holds a decision for
\* every party 0..total_nodes-1 and nobody else, the single payload of the
\* party's extracted set, or "0" when the set is empty or holds several.
C13_EveryPartyDecides ==
    pc = "done" =>
        /\ round_num = f + 1
        /\ DOMAIN decisions = 0..(total_nodes - 1)
        /\ \A p \in 0..(total_nodes - 1) :
              /\ Cardinality(extracted[p]) = 1 => extracted[p] = {decisions[p]}
              /\ Cardinality(extracted[p]) # 1 => decisions[p] = "0"
        /\ harness = "ca" => final_decision = decisions[0]

\* a finished run of the plain scheduler with three nodes, one of them
\* deciding the default and another its single payload
C13_Witness ==
    /\ harness = "ds"
    /\ pc = "done"
    /\ total_nodes = 3
    /\ \E p, q \in Parties :
          /\ decisions[p] = "0" /\ extracted[p] = {}
          /\ decisions[q] = initial_value /\ extracted[q] = {initial_value}

\* C14 -- Single-pass semantics: an inbound list is handed to Node.receive
\* at most once from the moment it is installed, whatever the round, and
\* exactly once by the time the round's receive loop has passed its party
\* (the plain scheduler skips a party whose list is empty).
C14_SinglePass ==
    /\ \A p \in DOMAIN receive_calls : receive_calls[p] <= 1
    /\ (harness = "ds" /\ pc = "round") =>
          \A p \in 0..(cursor - 1) :
             message_queues[p] # <<>> => receive_calls[p] = 1
    /\ (harness = "ca" /\ pc = "inject") =>
          \A p \in DOMAIN current_messages : receive_calls[p] = 1

\* the messages held for party q: its inbound list of the round in progress
\* and the one under construction for the next round
Held(bags, q) == IF q \in DOMAIN bags THEN Range(bags[q]) ELSE {}
NextInbound(q) ==
    Held(next_round_messages, q)
        \cup (IF harness = "ds" THEN Held(message_queues, q) ELSE {})

\* C15 -- Delivery: a message that receive() returns to its party in relay
\* round r (a Byzantine agent's own relays, which it may alter, left aside)
\* is at once in the next inbound list of every other party and in no list
\* of the party itself; and the lists processed in relay round r hold only
\* chains of r signers, the messages of the round before, so that nothing
\* emitted in round r is processed ahead of them.
C15_Delivery ==
    /\ [][ \A p \in DOMAIN emitted :
             (harness = "ds" \/ p \notin byzantine_nodes) =>
                \A k \in (Len(emitted[p]) + 1)..Len(emitted'[p]) :
                   /\ \A q \in Parties \ {p} :
                         emitted'[p][k] \in NextInbound(q)'
                   /\ emitted'[p][k] \notin NextInbound(p)' ]_vars
    /\ []((harness = "ds" /\ pc = "round") =>
             \A q \in Parties : \A m \in Range(message_queues[q]) :
                Len(m.signers) = round_num)

\* the positions of the returned list that carry payload v
RelaysOf(v) == {i \in 1..Len(new_msgs) : new_msgs[i].payload = v}

\* C16 -- Receive/relay step: when Node.receive, on a node with nothing
\* extracted yet, comes to a message that passes the validity predicate
\* (signers present, distinct, first one 0, at most f + 2) and is the first
\* of its bag with that payload, the payload is in extracted afterwards; if
\* the node's id is not in the chain the returned list holds exactly one
\* message with that payload, its chain being the received chain followed
\* by the node's id; if the id is in the chain the list holds none.
C16_ReceiveRelay ==
    (harness = "unit" /\ pc \in {"returned", "raised"}) =>
        \A k \in 1..Len(round_msgs) :
           LET msg == round_msgs[k]
           IN  ( /\ WellFormed(f, msg)
                 /\ \A j \in 1..(k - 1) :
                       /\ round_msgs[j].payload # msg.payload
                       /\ AllNumerals(round_msgs[j]) )
               =>
               /\ msg.payload \in extracted[unit_node]
               /\ pc = "returned" =>
                     IF unit_node \notin Range(SignerIds(msg))
                     THEN /\ Cardinality(RelaysOf(msg.payload)) = 1
                          /\ \A i \in RelaysOf(msg.payload) :
                                /\ Canonical(new_msgs[i])
                                /\ SignerIds(new_msgs[i]) =
                                      Append(SignerIds(msg), unit_node)
                     ELSE RelaysOf(msg.payload) = {}

\* node 1 was given "buy|0", which it relayed as "buy|0|1", and
\* "sell|0|1", which it extracted without a relay
C16_Witness ==
    /\ harness = "unit"
    /\ pc = "returned"
    /\ unit_node = 1
    /\ round_msgs = <<Msg("buy", <<str(0)>>), Msg("sell", <<str(0), str(1)>>)>>
    /\ new_msgs = <<Msg("buy", <<str(0), str(1)>>)>>
    /\ extracted[1] = {"buy", "sell"}

\* the list a scheduler hands to party p's receive() in the step it takes
Delivered(p) ==
    IF harness = "ds" THEN Range(message_queues[p])
    ELSE Held(current_messages, p)

\* the chain starts with the sender, names nobody twice and has at most
\* f + 2 signers
SoundChain(msg) ==
    /\ msg.signers # <<>>
    /\ AllNumerals(msg)
    /\ SignerIds(msg)[1] = sender_id
    /\ Cardinality(Range(SignerIds(msg))) = Len(msg.signers)
    /\ Len(msg.signers) <= f + 2

\* C17 -- Provenance: the extracted sets are empty when a run starts, and
\* whenever a step of a run puts a payload into an honest party's
\* extracted set, the list delivered to that party holds a message with
\* that payload whose chain starts with the sender, has pairwise distinct
\* signers and at most f + 2 of them.
C17_Provenance ==
    /\ [](pc = "start" /\ runs = 0 => \A p \in Parties : extracted[p] = {})
    /\ [][ pc # "start" =>
             \A p \in Honest : \A v \in extracted'[p] \ extracted[p] :
                \E msg \in Delivered(p) :
                   msg.payload = v /\ SoundChain(msg) ]_vars

\* an honest agent holds the sender's value and a payload that reached it
\* only in a Byzantine agent's injected message
C17_Witness ==
    /\ harness = "ca"
    /\ \E p \in Honest : \E a \in byzantine_nodes \ {0} :
          /\ initial_value \in extracted[p]
          /\ "panic" \in extracted[p]
          /\ Msg("panic", <<str(0), str(a)>>) \in Held(current_messages, p)

\* a fresh Node q with fault bound f extracts the payload of msg
Admits(q, msg) == receive(q, f, {}, <<msg>>).extracted = {msg.payload}

\* C18 -- Corrupt relay changes only the payload: the list a Byzantine
\* agent distributes after the corrupt-relay hook has as many messages as
\* receive() returned, each with the signer chain of the relay in its place,
\* in the same order, so that every receiver admits the one if and only if
\* it admits the other.
C18_CorruptKeepsChain ==
    (harness = "unit" /\ pc = "corrupted") =>
        /\ Len(new_msgs) = Len(emitted[unit_node])
        /\ \A k \in 1..Len(new_msgs) :
              /\ new_msgs[k].signers = emitted[unit_node][k].signers
              /\ \A q \in 0..MaxN :
                    Admits(q, new_msgs[k]) <=> Admits(q, emitted[unit_node][k])

\* of two relays the hook replaced the payload of one and kept the other,
\* and a receiver admits both
C18_Witness ==
    /\ harness = "unit"
    /\ pc = "corrupted"
    /\ Len(new_msgs) = 2
    /\ \E j, k \in 1..2 :
          /\ new_msgs[j] = emitted[unit_node][j]
          /\ new_msgs[k].payload \in corrupt_values
          /\ new_msgs[k].payload # emitted[unit_node][k].payload
          /\ Admits(0, new_msgs[k])

\* C19 -- Reset between runs: the first step of every run_consensus call,
\* the first one or a later one on parties that hold the payloads of the
\* run before, leaves every party with an empty extracted set; and every
\* finished run of DolevStrongConsensus.run_consensus with value w, first
\* or later, ends with the extracted sets and decisions of a run with w on
\* fresh nodes.
C19_ResetBetweenRuns ==
    /\ [][ pc = "start" => \A p \in Parties : extracted'[p] = {} ]_vars
    /\ []((harness = "ds" /\ pc = "done") =>
             /\ extracted = FreshRun(initial_value)
             /\ decisions = [p \in Parties |->
                                decide(FreshRun(initial_value)[p])])

\* a second run of the plain scheduler is under way with the value the
\* first run did not have: a node that decided the other value then (the
\* caller still holds that dict) now holds the new value only
C19_Witness ==
    /\ harness = "ds"
    /\ pc = "round"
    /\ runs = 2
    /\ \E p \in Parties :
          /\ decisions[p] \in Values \ {initial_value}
          /\ extracted[p] = {initial_value}

\* msg carries the chain a Byzantine agent a fabricates: "0|a"
InjectedBy(msg, a) == msg.signers = <<str(0), str(a)>>

\* the number of messages collected for q before the injection loop runs
Waiting(q) ==
    IF q \in DOMAIN next_round_messages THEN Len(next_round_messages[q]) ELSE 0

\* C20 -- Injection admissibility: every message the injection loop adds
\* to an agent's list carries one of malicious_values and the chain [0, a]
\* of a Byzantine agent a other than the recipient; when the list is next
\* handed to receive(), the payload of a message with chain [0, a], a # 0,
\* is extracted, and no payload is extracted that only messages with chain
\* [0, 0], those of a Byzantine sender, carry.  The same holds of a Node
\* driven directly, for every f from 0 on.
C20_InjectionAdmitted ==
    /\ [][ (harness = "ca" /\ pc = "inject") =>
             \A q \in DOMAIN current_messages' :
                \A k \in (Waiting(q) + 1)..Len(current_messages'[q]) :
                   /\ current_messages'[q][k].payload \in malicious_values
                   /\ \E a \in byzantine_nodes \ {q} :
                         InjectedBy(current_messages'[q][k], a) ]_vars
    /\ [][ (harness = "ca" /\ pc = "show") =>
             \A q \in DOMAIN current_messages :
                /\ \A msg \in Range(current_messages[q]) :
                      (\E a \in Parties \ {0, q} : InjectedBy(msg, a))
                         => msg.payload \in extracted'[q]
                /\ \A v \in extracted'[q] \ extracted[q] :
                      \E msg \in Range(current_messages[q]) :
                         msg.payload = v /\ ~InjectedBy(msg, 0) ]_vars
    /\ []((harness = "unit" /\ pc = "returned") =>
             /\ \A msg \in Range(round_msgs) :
                   (\E a \in 1..MaxN : InjectedBy(msg, a))
                      => msg.payload \in extracted[unit_node]
             /\ \A v \in extracted[unit_node] :
                   \E msg \in Range(round_msgs) :
                      msg.payload = v /\ ~InjectedBy(msg, 0))

\* agent 0, to which nothing else was ever delivered, ends a run holding
\* the payload a Byzantine agent a # 0 injected with the chain [0, a]
C20_Witness ==
    /\ harness = "ca"
    /\ pc = "done"
    /\ 0 \notin byzantine_nodes
    /\ extracted[0] = {"exploit"}
    /\ \E a \in byzantine_nodes :
          Msg("exploit", <<str(0), str(a)>>) \in Held(current_messages, 0)

\* the round-0 message "w|sender_id" of DolevStrongConsensus.run_consensus
Round0(w) == Msg(w, <<str(sender_id)>>)

\* the extracted sets run_consensus(w) ends with when every non-sender node
\* starts from the list [Round0(w)]: computed from total_nodes, f, sender_id
\* and w, without a look at byzantine_nodes
FlaglessRun(w) ==
    FreshRounds([p \in Parties |-> {}],
                [i \in Parties |-> IF i # sender_id THEN <<Round0(w)>> ELSE <<>>],
                1)

\* C21 -- The Byzantine flag has no effect in DolevStrongConsensus: whatever
\* byzantine_nodes is, the sender included, round 0 puts the one message
\* "initial_value|sender_id" in the list of every other node, and the run
\* ends with the extracted sets and decisions that total_nodes, f,
\* sender_id and initial_value alone determine, so two runs that differ
\* only in byzantine_nodes end alike.
C21_FlagHasNoEffect ==
    /\ (harness = "ds" /\ pc = "round" /\ round_num = 1) =>
          \A i \in Parties :
             message_queues[i] =
                IF i # sender_id THEN <<Round0(initial_value)>> ELSE <<>>
    /\ (harness = "ds" /\ pc = "done") =>
          /\ extracted = FlaglessRun(initial_value)
          /\ decisions = [p \in Parties |->
                             decide(FlaglessRun(initial_value)[p])]

\* a finished run with a Byzantine sender 0 and f >= 1 in which every
\* node, the sender included, holds and decides the sender's value
C21_Witness ==
    /\ harness = "ds"
    /\ pc = "done"
    /\ sender_id = 0
    /\ sender_id \in byzantine_nodes
    /\ \A p \in Parties :
          extracted[p] = {initial_value} /\ decisions[p] = initial_value

====
